---- MODULE Spec2Model ----
(***************************************************************************)
(* VarScrap: the resumable fetch pipelines of the museum scrapers.         *)
(*                                                                         *)
(*   HermitageMuseum.scrape    threaded pipeline: work queue, worker       *)
(*                             threads, success/failure sinks with one     *)
(*                             drain thread each, downloaded.txt and       *)
(*                             failed.txt ledgers                           *)
(*   WallaceCollection.scrape  sequential loop over the same kind of       *)
(*                             downloaded.txt ledger                        *)
(*                                                                         *)
(* A behaviour is a sequence of runs over one output directory: the disk   *)
(* (ledger files, JSON records, images) survives a process stop, all the   *)
(* rest is rebuilt by the next launch.                                     *)
(***************************************************************************)
EXTENDS Integers, Sequences, FiniteSets, TLC

\* ------------------------------------------------------------------ bounds
MaxInput == 2          \* longest input identifier list
MaxRuns == 2           \* launches over the same output directory
MaxSeed == 12          \* longest input list of the seeding specification
MaxImages == 2         \* most image urls of one V&A record

\* ------------------------------------------------------- program constants
MaxThreads == 10       \* min(queue.qsize(), 10)
RetryLimit == 2        \* annotation is None and tries >= 2

Ids == {"a", "b"}

\* The Hermitage input is a list of result urls; the identifier is derived
\* from the url: url.split("/digital-collection/")[1].replace("/", "_")
UrlOf == [i \in Ids |-> IF i = "a" THEN "/digital-collection/a" ELSE "/digital-collection/b"]
Urls == {UrlOf[i] : i \in Ids}
IdOfUrl(url) == CHOOSE i \in Ids : UrlOf[i] = url

\* What the remote site does for one identifier.
\*   PageFail  the page request raises, or the page does not parse
\*   PageGone  the page request is answered with a non-ok status
\*   DlOk      page ok; the image request is ok
\*   DlFail    page ok; the image request is answered with a non-ok status
Outcomes == {"PageFail", "PageGone", "DlOk", "DlFail"}

Range(s) == {s[k] : k \in DOMAIN s}
Min(x, y) == IF x < y THEN x ELSE y

RECURSIVE SetToSeq(_)
SetToSeq(S) == IF S = {} THEN <<>>
               ELSE LET x == CHOOSE y \in S : TRUE IN <<x>> \o SetToSeq(S \ {x})

RECURSIVE SeqsUpTo(_)
SeqsUpTo(n) == IF n = 0 THEN {<<>>}
               ELSE SeqsUpTo(n - 1) \cup {Append(s, i) : s \in {t \in SeqsUpTo(n - 1) : Len(t) = n - 1}, i \in Ids}

\* ------------------------------------------------------------ Python values
None == [kind |-> "None"]
Information(id) == [kind |-> "Information", object_id |-> id]
Str(s) == [kind |-> "str", value |-> s]

\* A line of a ledger file as a reader meets it: the text before the line
\* end, and whether the line is terminated by "\n".
Line(text) == [text |-> text, nl |-> TRUE]

\* l.strip()
Strip(l) == l.text

\* file.write(x + "\n") for each x of the list, in order
Lines(list) == [k \in DOMAIN list |-> Line(list[k])]

\* a rewrite that writes the newest identifier only
JoinLinesLast(list) ==
    IF list = <<>> THEN <<>> ELSE <<[text |-> list[Len(list)], nl |-> FALSE]>>

\* fo.write("\n".join(list)): no line end after the last element
JoinLines(list) == [k \in DOMAIN list |-> [text |-> list[k], nl |-> k < Len(list)]]

\* the texts on the lines of a file
Texts(file) == {file[k].text : k \in DOMAIN file}

\* queue.Queue: the items and the count of unfinished tasks
EmptyQueue == [items |-> <<>>, unfinished |-> 0]
Put(q, x) == [items |-> Append(q.items, x), unfinished |-> q.unfinished + 1]
Get(q) == [q EXCEPT !.items = Tail(q.items)]
TaskDone(q) == [q EXCEPT !.unfinished = q.unfinished - 1]

VARIABLES
    scraper,            \* which scraper main.run selected
    input,              \* the identifiers of the input, in input order
    fate,               \* the remote site's answer per identifier
    maxConcurrency,     \* the worker cap
    run,                \* number of the current launch
    ledgerExists,       \* os.path.isfile(<output>/downloaded.txt)
    progressFile,       \* lines of <output>/downloaded.txt
    failedFile,         \* lines of <output>/failed.txt
    jsonFiles,          \* identifiers with <output>/<id>.json
    imageFiles,         \* identifiers with <output>/<id>.jpg
    csvFile,            \* the annotation csv: index and row count
    pc,                 \* position of scrape()
    download_progress,  \* the loaded ledger
    queue, output_queue, failed_queue,
    threads,            \* worker threads: position, obj, annotation and (history)
                        \* the files the current attempt has written
    writers,            \* the two _write_progress_worker threads
    annotations,        \* the accumulator
    todo,               \* Wallace: the filtered objects still to visit
    annotation,         \* Wallace: result of the current __extract_page
    fileAtStart,        \* history: downloaded.txt as the launch found it
    prevStart,          \* history: length of downloaded.txt when the previous launch found it
    prevFailed,         \* history: identifiers the previous launch fetched in vain
    fetchCount,         \* history: calls of __extract_page per identifier
    downloadCount,      \* history: calls of _download_image per identifier
    hadImage,           \* history: identifiers whose image existed when processed
    produced,           \* history: identifiers of the records put on output_queue
    deep_data,          \* V&A: the records, each with its image urls and image_names
    d_pos, idx,         \* V&A: position of the download loops (record, image url)
    vpc,                \* V&A: position of VandA.scrape
    imageOk,            \* V&A: the image urls whose request is answered ok
    targetFiles,        \* V&A: image files in the output directory
    targetsAtStart,     \* V&A history: image files the launch found
    vandaCsv            \* V&A: rows of vanda_scraped.csv

vars == <<scraper, input, fate, maxConcurrency, run, ledgerExists, progressFile, failedFile,
          jsonFiles, imageFiles, csvFile, pc, download_progress, queue,
          output_queue, failed_queue, threads, writers, annotations, todo,
          annotation, fileAtStart, prevStart, prevFailed, fetchCount, downloadCount,
          hadImage, produced, deep_data, d_pos, idx, vpc, imageOk, targetFiles,
          targetsAtStart, vandaCsv>>

disk == <<ledgerExists, progressFile, failedFile, jsonFiles, imageFiles, csvFile>>
config == <<scraper, input, fate, maxConcurrency>>
sinks == <<output_queue, failed_queue>>
wallace == <<todo, annotation>>
vanda == <<deep_data, d_pos, idx, vpc, imageOk, targetFiles, targetsAtStart, vandaCsv>>
history == <<fileAtStart, prevStart, prevFailed, fetchCount, downloadCount, hadImage>>

NoCsv == [written |-> FALSE, index |-> <<>>, rows |-> <<>>]
NoWriters == [s \in {"progress", "failed"} |-> [pc |-> "idle", element |-> None]]
ZeroCount == [i \in Ids |-> 0]

Init ==
    /\ scraper \in {"hermitagemuseum", "wallace"}
    /\ input \in SeqsUpTo(MaxInput)
    /\ fate \in [Ids -> Outcomes]
    /\ \A i \in Ids \ Range(input) : fate[i] = "PageFail"
    /\ maxConcurrency \in IF scraper = "hermitagemuseum" THEN {1, MaxThreads} ELSE {MaxThreads}
    /\ run = 1
    /\ \E L \in SUBSET Ids :
          progressFile = IF scraper = "wallace" THEN JoinLines(SetToSeq(L))
                         ELSE Lines(SetToSeq(L))
    /\ ledgerExists = (progressFile # <<>>)
    /\ failedFile = <<>>
    /\ jsonFiles = {}
    /\ imageFiles \in SUBSET Range(input)
    /\ csvFile = NoCsv
    /\ fileAtStart = progressFile
    /\ prevStart = Len(progressFile)
    /\ prevFailed = {}
    /\ pc = "Seeding"
    /\ download_progress = <<>>
    /\ queue = EmptyQueue
    /\ output_queue = EmptyQueue
    /\ failed_queue = EmptyQueue
    /\ threads = <<>>
    /\ writers = NoWriters
    /\ annotations = <<>>
    /\ todo = <<>>
    /\ annotation = None
    /\ fetchCount = ZeroCount
    /\ downloadCount = ZeroCount
    /\ hadImage = {}
    /\ produced = <<>>
    /\ deep_data = <<>>
    /\ d_pos = 1
    /\ idx = 0
    /\ vpc = "Idle"
    /\ imageOk = {}
    /\ targetFiles = {}
    /\ targetsAtStart = {}
    /\ vandaCsv = <<>>

\* ------------------------------------------------------------ ProgressStore
\* list(set([l.strip() for l in fi])) when downloaded.txt exists, else []
\* (the order of list(set(..)) is unspecified; no reader depends on it)
\* a loader that finds no ledger (reads another path)
LoadProgressMissing(file) == <<>>

\* a loader that keeps every line
LoadProgressNoSet(file) == [k \in DOMAIN file |-> Strip(file[k])]

\* a loader that takes the first line for a header
LoadProgressHeader(file) == IF file = <<>> THEN <<>> ELSE SetToSeq({Strip(l) : l \in Range(Tail(file))})

LoadProgress(file) == SetToSeq({Strip(l) : l \in Range(file)})

\* if os.path.isfile(download_progress_file): .. else: download_progress = []
LoadLedger == IF ledgerExists THEN LoadProgress(progressFile) ELSE <<>>

\* ============================================================== Hermitage
Objects == [k \in 1..Len(input) |-> UrlOf[input[k]]]

\* for url in objects: id = ...; if id not in download_progress: queue.put((url, id, 0))
RECURSIVE SeedQueue(_, _, _)
SeedQueue(objects, progress, q) ==
    IF objects = <<>> THEN q
    ELSE LET url == Head(objects)
             id == IdOfUrl(url)
         IN SeedQueue(Tail(objects), progress,
                      IF id \notin Range(progress) THEN Put(q, <<url, id, 0>>) ELSE q)

\* number_of_threads = min(queue.qsize(), 10)
\* a thread count that always starts one worker
NumberOfThreadsAtLeastOne(q) == 1

\* a thread count without the cap: one worker per seeded item
NumberOfThreadsUncapped(q) == Len(q.items)

NumberOfThreads(q) == Min(Len(q.items), maxConcurrency)

\* scrape(), lines 194-230: load the ledger, seed the queue, start the worker
\* threads, open both ledger files for append (which creates them), start
\* both drain threads.
H_Seed ==
    /\ scraper = "hermitagemuseum"
    /\ pc = "Seeding"
    /\ download_progress' = LoadLedger
    /\ queue' = SeedQueue(Objects, download_progress', EmptyQueue)
    /\ threads' = [w \in 1..NumberOfThreads(queue') |->
                      [pc |-> "check", obj |-> <<>>, annotation |-> None, wrote |-> {}]]
    /\ writers' = [s \in {"progress", "failed"} |-> [pc |-> "get", element |-> None]]
    /\ ledgerExists' = TRUE
    /\ pc' = "JoinQueue"
    /\ UNCHANGED <<vanda, produced, config, run, progressFile, failedFile, jsonFiles, imageFiles, csvFile,
                   sinks, annotations, wallace, history>>

\* while not queue.empty():
WorkerLoopTest(w) ==
    /\ threads[w].pc = "check"
    /\ threads' = [threads EXCEPT ![w].pc = IF queue.items = <<>> THEN "exit" ELSE "get"]
    /\ UNCHANGED <<vanda, produced, config, run, disk, pc, download_progress, queue, sinks, writers,
                   annotations, wallace, history>>

\* an image test that looks at another path
ImageExistsNever(id) == FALSE

\* __extract_page returns None before it writes anything: requests.get
\* raises (lines 284-288), page.ok is false (line 289, the function falls off
\* its end) or the page raises IndexError in the parse (lines 310-311).
\* Wallace: the page or the image popup is not ok.
PageFails(id) == fate[id] \in {"PageFail", "PageGone"}

\* an image test that finds every image present
ImageExistsAlways(id) == TRUE

\* os.path.isfile(target_image)
ImageExists(id) == id \in imageFiles

\* obj = queue.get(); url = obj[0]; obj_id = obj[1]; tries = obj[2]
\* A blocking get: the thread waits while the queue is empty.  obj[2] raises
\* IndexError on a 2-tuple and ends the thread before task_done().
\* Then __extract_page up to the image test: request the page, parse it,
\* write <id>.json, test os.path.isfile(target_image).
WorkerGet(w) ==
    /\ threads[w].pc = "get"
    /\ queue.items # <<>>
    /\ queue' = Get(queue)
    /\ LET obj == Head(queue.items) IN
        IF Len(obj) < 3
        THEN /\ threads' = [threads EXCEPT ![w].obj = obj, ![w].pc = "crashed"]
             /\ UNCHANGED <<jsonFiles, fetchCount, hadImage>>
        ELSE LET id == obj[2] IN
             /\ fetchCount' = [fetchCount EXCEPT ![id] = @ + 1]
             /\ IF PageFails(id)
                THEN /\ threads' = [threads EXCEPT ![w].obj = obj, ![w].annotation = None,
                                                   ![w].pc = "route"]
                     /\ UNCHANGED <<jsonFiles, hadImage>>
                ELSE /\ jsonFiles' = jsonFiles \cup {id}
                     /\ IF ImageExists(id)
                        THEN /\ threads' = [threads EXCEPT ![w].obj = obj,
                                                ![w].annotation = Information(id),
                                                ![w].wrote = {"json"},
                                                ![w].pc = "route"]
                             /\ hadImage' = hadImage \cup {id}
                        ELSE /\ threads' = [threads EXCEPT ![w].obj = obj,
                                                ![w].wrote = {"json"},
                                                ![w].pc = "download"]
                             /\ UNCHANGED hadImage
    /\ UNCHANGED <<vanda, produced, config, run, ledgerExists, progressFile, failedFile, imageFiles, csvFile, pc,
                   download_progress, sinks, writers, annotations, wallace,
                   fileAtStart, prevStart, prevFailed, downloadCount>>

\* Scraper._download_image: writes the file when r.ok; has no return
\* statement, so the caller receives None whatever happened.
DownloadImageResult(r_ok) == None

Truthy(v) == v # None

\* image_ok = _download_image(..); if not image_ok: return None; return info
DownloadImage(w) ==
    /\ threads[w].pc = "download"
    /\ LET id == threads[w].obj[2] IN
        /\ downloadCount' = [downloadCount EXCEPT ![id] = @ + 1]
        /\ LET r_ok == fate[id] = "DlOk"
               image_ok == DownloadImageResult(r_ok)
           IN /\ imageFiles' = IF r_ok THEN imageFiles \cup {id} ELSE imageFiles
              /\ threads' = [threads EXCEPT
                     ![w].annotation = IF Truthy(image_ok) THEN Information(id) ELSE None,
                     ![w].wrote = IF r_ok THEN @ \cup {"image"} ELSE @,
                     ![w].pc = "route"]
    /\ UNCHANGED <<vanda, produced, config, run, ledgerExists, progressFile, failedFile, jsonFiles, csvFile, pc,
                   download_progress, queue, sinks, writers, annotations, wallace,
                   fileAtStart, prevStart, prevFailed, fetchCount, hadImage>>

\* The item a worker re-enqueues after a failed attempt below the ceiling.
RetryItem(url, obj_id, tries) == <<url, tries + 1>>

\* The three-way test of __extract_page_worker, lines 262-269.
Sink(a, tries) ==
    IF a = None /\ tries >= RetryLimit THEN "failed_queue"
    ELSE IF a = None THEN "queue"
    ELSE "output_queue"

\* failed_queue.put(url) / queue.put((url, tries + 1)) / output_queue.put(annotation)
Route(w) ==
    /\ threads[w].pc = "route"
    /\ LET url == threads[w].obj[1]
           obj_id == threads[w].obj[2]
           tries == threads[w].obj[3]
           a == threads[w].annotation
           to == Sink(a, tries)
       IN /\ failed_queue' = IF to = "failed_queue" THEN Put(failed_queue, Str(url))
                             ELSE failed_queue
          /\ queue' = IF to = "queue" THEN Put(queue, RetryItem(url, obj_id, tries))
                      ELSE queue
          /\ output_queue' = IF to = "output_queue" THEN Put(output_queue, a)
                             ELSE output_queue
          /\ produced' = IF to = "output_queue" THEN Append(produced, obj_id) ELSE produced
    /\ threads' = [threads EXCEPT ![w].pc = "ack"]
    /\ UNCHANGED <<vanda, config, run, disk, pc, download_progress, writers, annotations,
                   wallace, history>>

\* queue.task_done(); the locals of the finished iteration are dead
WorkerTaskDone(w) ==
    /\ threads[w].pc = "ack"
    /\ queue' = TaskDone(queue)
    /\ threads' = [threads EXCEPT ![w] = [pc |-> "check", obj |-> <<>>, annotation |-> None,
                                          wrote |-> {}]]
    /\ UNCHANGED <<vanda, produced, config, run, disk, pc, download_progress, sinks, writers,
                   annotations, wallace, history>>

\* -------------------------------------------------- _write_progress_worker
SinkOf(s) == IF s = "progress" THEN output_queue ELSE failed_queue

\* progress_file.close(); failed_file.close() have run
FilesClosed == pc \in {"Aggregate", "Done"}

\* a drain loop that also ends when a poll finds its sink empty
WriterGetTimeout(s) ==
    /\ writers[s].pc = "get"
    /\ IF SinkOf(s).items = <<>>
       THEN /\ writers' = [writers EXCEPT ![s].pc = "exit"]
            /\ UNCHANGED sinks
       ELSE LET element == Head(SinkOf(s).items) IN
            /\ writers' = [writers EXCEPT ![s].element = element,
                                          ![s].pc = IF element = None THEN "exit" ELSE "write"]
            /\ IF s = "progress"
               THEN output_queue' = Get(output_queue) /\ UNCHANGED failed_queue
               ELSE failed_queue' = Get(failed_queue) /\ UNCHANGED output_queue
    /\ UNCHANGED <<vanda, produced, config, run, disk, pc, download_progress, queue, threads,
                   annotations, wallace, history>>

\* element = output_queue.get(True, 2); if element is None: break
\* (a poll that times out on Empty loops back without changing anything)
WriterGet(s) ==
    /\ writers[s].pc = "get"
    /\ SinkOf(s).items # <<>>
    /\ LET element == Head(SinkOf(s).items) IN
        /\ writers' = [writers EXCEPT ![s].element = element,
                                      ![s].pc = IF element = None THEN "exit" ELSE "write"]
        /\ IF s = "progress"
           THEN output_queue' = Get(output_queue) /\ UNCHANGED failed_queue
           ELSE failed_queue' = Get(failed_queue) /\ UNCHANGED output_queue
    /\ UNCHANGED <<vanda, produced, config, run, disk, pc, download_progress, queue, threads,
                   annotations, wallace, history>>

\* a writer that writes the type of the element instead of its identifier
ProgressLineKind(element) == element.kind

\* The ledger line of a sink element: the object_id of a record, else the
\* element itself.
ProgressLine(element) ==
    IF element.kind = "Information" THEN element.object_id ELSE element.value

\* annotations.append(element) for a record on the success sink, then
\* download_progress_file.write(progress + "\n"); flush().  Writing to a
\* closed file raises ValueError, a failing write raises OSError; the loop
\* catches Empty only, so either ends the thread before task_done().
\* Whether the storage takes the write is the environment's choice.
WriterWrite(s) ==
    /\ writers[s].pc = "write"
    /\ LET element == writers[s].element IN
        /\ annotations' = IF element.kind = "Information" /\ s = "progress"
                          THEN Append(annotations, element) ELSE annotations
        /\ \E write_fails \in BOOLEAN : IF FilesClosed \/ write_fails
           THEN /\ writers' = [writers EXCEPT ![s].pc = "crashed"]
                /\ UNCHANGED <<progressFile, failedFile>>
           ELSE /\ writers' = [writers EXCEPT ![s].pc = "ack"]
                /\ IF s = "progress"
                   THEN /\ progressFile' = Append(progressFile, Line(ProgressLine(element)))
                        /\ UNCHANGED failedFile
                   ELSE /\ failedFile' = Append(failedFile, Line(ProgressLine(element)))
                        /\ UNCHANGED progressFile
    /\ UNCHANGED <<vanda, produced, config, run, ledgerExists, jsonFiles, imageFiles, csvFile, pc, download_progress,
                   queue, sinks, threads, wallace, history>>

\* output_queue.task_done()
WriterTaskDone(s) ==
    /\ writers[s].pc = "ack"
    /\ writers' = [writers EXCEPT ![s] = [pc |-> "get", element |-> None]]
    /\ IF s = "progress"
       THEN output_queue' = TaskDone(output_queue) /\ UNCHANGED failed_queue
       ELSE failed_queue' = TaskDone(failed_queue) /\ UNCHANGED output_queue
    /\ UNCHANGED <<vanda, produced, config, run, disk, pc, download_progress, queue, threads,
                   annotations, wallace, history>>

\* ------------------------------------------------- scrape(), lines 231-243
\* an orchestrator that does not wait for the work queue
JoinQueueNoWait ==
    /\ pc = "JoinQueue"
    /\ pc' = "JoinOutput"
    /\ UNCHANGED <<vanda, produced, config, run, disk, download_progress, queue, sinks, threads,
                   writers, annotations, wallace, history>>

\* queue.join()
JoinQueue ==
    /\ pc = "JoinQueue"
    /\ queue.unfinished = 0
    /\ pc' = "JoinOutput"
    /\ UNCHANGED <<vanda, produced, config, run, disk, download_progress, queue, sinks, threads,
                   writers, annotations, wallace, history>>

\* an orchestrator that does not wait for the success sink
JoinOutputNoWait ==
    /\ pc = "JoinOutput"
    /\ pc' = "JoinFailed"
    /\ UNCHANGED <<vanda, produced, config, run, disk, download_progress, queue, sinks, threads,
                   writers, annotations, wallace, history>>

\* output_queue.join()
JoinOutput ==
    /\ pc = "JoinOutput"
    /\ output_queue.unfinished = 0
    /\ pc' = "JoinFailed"
    /\ UNCHANGED <<vanda, produced, config, run, disk, download_progress, queue, sinks, threads,
                   writers, annotations, wallace, history>>

\* failed_queue.join()
JoinFailed ==
    /\ pc = "JoinFailed"
    /\ failed_queue.unfinished = 0
    /\ pc' = "Sentinels"
    /\ UNCHANGED <<vanda, produced, config, run, disk, download_progress, queue, sinks, threads,
                   writers, annotations, wallace, history>>

\* output_queue.put(None); failed_queue.put(None)
PutSentinels ==
    /\ pc = "Sentinels"
    /\ output_queue' = Put(output_queue, None)
    /\ failed_queue' = Put(failed_queue, None)
    /\ pc' = "Close"
    /\ UNCHANGED <<vanda, produced, config, run, disk, download_progress, queue, threads, writers,
                   annotations, wallace, history>>

\* progress_file.close(); failed_file.close()
CloseFiles ==
    /\ pc = "Close"
    /\ pc' = "Aggregate"
    /\ UNCHANGED <<vanda, produced, config, run, disk, download_progress, queue, sinks, threads,
                   writers, annotations, wallace, history>>

\* pd.DataFrame(rows, index=index, columns=..): a frame of empty rows over the
\* index when there are no rows, one row per index entry when the lengths
\* agree, ValueError otherwise.
DataFrame(rows, index) ==
    IF rows = <<>> THEN [written |-> TRUE, index |-> index, rows |-> [k \in DOMAIN index |-> ""]]
    ELSE IF Len(rows) = Len(index) THEN [written |-> TRUE, index |-> index, rows |-> rows]
    ELSE [written |-> FALSE, index |-> <<>>, rows |-> <<>>]

ObjectIds(as) == [k \in DOMAIN as |-> as[k].object_id]

\* df = pd.DataFrame([a.to_dict() ..], index=[a.object_id ..]); df.to_csv(..)
H_WriteCsv ==
    /\ pc = "Aggregate"
    /\ csvFile' = DataFrame(ObjectIds(annotations), ObjectIds(annotations))
    /\ pc' = "Done"
    /\ UNCHANGED <<vanda, produced, config, run, ledgerExists, progressFile, failedFile, jsonFiles, imageFiles,
                   download_progress, queue, sinks, threads, writers, annotations,
                   wallace, history>>

\* ================================================================ Wallace
RECURSIVE NotIn(_, _)
NotIn(objects, progress) ==
    IF objects = <<>> THEN <<>>
    ELSE IF Head(objects) \notin Range(progress)
         THEN <<Head(objects)>> \o NotIn(Tail(objects), progress)
         ELSE NotIn(Tail(objects), progress)

\* scrape(), lines 163-173: load the ledger and filter the objects; the
\* comprehension is evaluated once, before the first iteration.
W_Seed ==
    /\ scraper = "wallace"
    /\ pc = "Seeding"
    /\ download_progress' = LoadLedger
    /\ todo' = NotIn(input, download_progress')
    /\ pc' = "Loop"
    /\ UNCHANGED <<vanda, produced, config, run, disk, queue, sinks, threads, writers, annotations,
                   annotation, history>>

\* WallaceCollection.__extract_page: a non-ok page or image popup falls off
\* the end (None); otherwise <id>.json is written, the image is downloaded
\* unless its file exists (the result of _download_image is not looked at)
\* and the record is returned.
W_ExtractPage ==
    /\ scraper = "wallace"
    /\ pc = "Loop"
    /\ todo # <<>>
    /\ LET id == Head(todo) IN
        /\ fetchCount' = [fetchCount EXCEPT ![id] = @ + 1]
        /\ IF PageFails(id)
           THEN /\ annotation' = None
                /\ pc' = "Record"
                /\ UNCHANGED <<jsonFiles, imageFiles, downloadCount, hadImage>>
           ELSE /\ jsonFiles' = jsonFiles \cup {id}
                /\ IF ImageExists(id)
                   THEN /\ hadImage' = hadImage \cup {id}
                        /\ annotation' = Information(id)
                        /\ pc' = "Record"
                        /\ UNCHANGED <<imageFiles, downloadCount>>
                   ELSE /\ downloadCount' = [downloadCount EXCEPT ![id] = @ + 1]
                        /\ imageFiles' = IF fate[id] = "DlOk" THEN imageFiles \cup {id}
                                         ELSE imageFiles
                        /\ annotation' = Information(id)
                        /\ pc' = "Record"
                        /\ UNCHANGED hadImage
    /\ UNCHANGED <<vanda, produced, config, run, ledgerExists, progressFile, failedFile, csvFile, download_progress,
                   queue, sinks, threads, writers, annotations, todo, fileAtStart,
                   prevStart, prevFailed>>

\* if annotation is None: continue
\* annotations.append(annotation); download_progress.append(obj.object_id)
\* open(download_progress_file, 'w') truncates the ledger; when it raises,
\* the exception leaves scrape()
W_Record ==
    /\ pc = "Record"
    /\ IF annotation = None
       THEN /\ todo' = Tail(todo)
            /\ pc' = "Loop"
            /\ UNCHANGED <<annotations, download_progress, ledgerExists, progressFile>>
       ELSE /\ annotations' = Append(annotations, annotation)
            /\ download_progress' = Append(download_progress, Head(todo))
            /\ \E open_fails \in BOOLEAN : IF open_fails
               THEN /\ pc' = "Error"
                    /\ UNCHANGED <<ledgerExists, progressFile>>
               ELSE /\ ledgerExists' = TRUE
                    /\ progressFile' = <<>>
                    /\ pc' = "Write"
            /\ UNCHANGED todo
    /\ UNCHANGED <<vanda, produced, config, run, failedFile, jsonFiles, imageFiles, csvFile, queue,
                   sinks, threads, writers, annotation, history>>

\* fo.write("\n".join(download_progress)) and the close of the with block
W_Write ==
    /\ pc = "Write"
    /\ progressFile' = JoinLines(download_progress)
    /\ todo' = Tail(todo)
    /\ pc' = "Loop"
    /\ UNCHANGED <<vanda, produced, config, run, ledgerExists, failedFile, jsonFiles, imageFiles, csvFile,
                   download_progress, queue, sinks, threads, writers, annotations,
                   annotation, history>>

\* df = pd.DataFrame([a.to_dict() for a in annotations],
\*                   index=[o.object_id for o in objects], ..); df.to_csv(..)
W_WriteCsv ==
    /\ scraper = "wallace"
    /\ pc = "Loop"
    /\ todo = <<>>
    /\ LET df == DataFrame(ObjectIds(annotations), input) IN
        /\ csvFile' = IF df.written THEN df ELSE csvFile
        /\ pc' = IF df.written THEN "Done" ELSE "Error"
    /\ UNCHANGED <<vanda, produced, config, run, ledgerExists, progressFile, failedFile, jsonFiles, imageFiles,
                   download_progress, queue, sinks, threads, writers, annotations,
                   wallace, history>>

\* identifiers passed to __extract_page in this launch
FetchedIds == {i \in Ids : fetchCount[i] > 0}

\* x's fetch fails on every attempt: the page fails, or the image request is
\* refused and no image file exists to make the download unnecessary
AlwaysFails(x) == PageFails(x) \/ (fate[x] = "DlFail" /\ x \notin imageFiles)

\* ============================================================ process stop
\* The process stops at any point (interruption, or the end of scrape()) and
\* is launched again with the same input and output directory.
Restart ==
    /\ pc # "Seeding"
    /\ run < MaxRuns
    /\ run' = run + 1
    /\ fileAtStart' = progressFile
    /\ prevStart' = Len(fileAtStart)
    /\ prevFailed' = {x \in FetchedIds : AlwaysFails(x)}
    /\ pc' = "Seeding"
    /\ download_progress' = <<>>
    /\ queue' = EmptyQueue
    /\ output_queue' = EmptyQueue
    /\ failed_queue' = EmptyQueue
    /\ threads' = <<>>
    /\ writers' = NoWriters
    /\ annotations' = <<>>
    /\ todo' = <<>>
    /\ annotation' = None
    /\ fetchCount' = ZeroCount
    /\ downloadCount' = ZeroCount
    /\ hadImage' = {}
    /\ produced' = <<>>
    /\ UNCHANGED <<vanda, config, disk>>

Next ==
    \/ H_Seed
    \/ \E w \in DOMAIN threads : WorkerLoopTest(w)
    \/ \E w \in DOMAIN threads : WorkerGet(w)
    \/ \E w \in DOMAIN threads : DownloadImage(w)
    \/ \E w \in DOMAIN threads : Route(w)
    \/ \E w \in DOMAIN threads : WorkerTaskDone(w)
    \/ \E s \in {"progress", "failed"} : WriterGet(s)
    \/ \E s \in {"progress", "failed"} : WriterWrite(s)
    \/ \E s \in {"progress", "failed"} : WriterTaskDone(s)
    \/ JoinQueue
    \/ JoinOutput
    \/ JoinFailed
    \/ PutSentinels
    \/ CloseFiles
    \/ H_WriteCsv
    \/ W_Seed
    \/ W_ExtractPage
    \/ W_Record
    \/ W_Write
    \/ W_WriteCsv
    \/ Restart

Spec == Init /\ [][Next]_vars

TypeOK ==
    /\ run \in 1..MaxRuns
    /\ Len(input) <= MaxInput
    /\ queue.unfinished >= 0
    /\ output_queue.unfinished >= 0
    /\ failed_queue.unfinished >= 0

\* ============================================================= properties
Hermitage == scraper = "hermitagemuseum"

RECURSIVE Occurrences(_, _)
Occurrences(seq, x) ==
    IF seq = <<>> THEN 0
    ELSE (IF Head(seq) = x THEN 1 ELSE 0) + Occurrences(Tail(seq), x)

\* identifiers on downloaded.txt when this launch started
LedgerAtStart == Texts(fileAtStart)

\* identifiers the launch has to fetch
Remaining == Range(input) \ LedgerAtStart

\* lines appended to downloaded.txt by this Hermitage launch
AppendedLines == SubSeq(progressFile, Len(fileAtStart) + 1, Len(progressFile))

\* identifiers named by a line of failed.txt, as identifier or as url
FailedIds == {i \in Ids : i \in Texts(failedFile) \/ UrlOf[i] \in Texts(failedFile)}

\* No worker thread can take another step: each has left its loop, has died,
\* or waits in queue.get() on an empty queue.
WorkersStopped ==
    /\ Hermitage
    /\ pc # "Seeding"
    /\ \A w \in DOMAIN threads :
          \/ threads[w].pc \in {"exit", "crashed"}
          \/ threads[w].pc = "get" /\ queue.items = <<>>

\* Both drain threads have written all that was put on their sink.
SinksDrained ==
    \A s \in {"progress", "failed"} :
        /\ writers[s].pc \in {"get", "exit"}
        /\ SinkOf(s).items = <<>> \/ writers[s].pc = "exit"

\* The Wallace loop has visited every filtered object.
LoopFinished == scraper = "wallace" /\ pc \in {"Loop", "Done", "Error"} /\ todo = <<>>

\* Every identifier of the launch has been attempted.
AllAttempted == WorkersStopped \/ LoopFinished

\* C1 Idempotent resume: a launch fetches exactly the input identifiers that
\* are not on the persisted success ledger, once per occurrence in the input,
\* and never passes an identifier of the ledger to the fetcher (Hermitage
\* workers and Wallace loop alike).
C1_IdempotentResume ==
    /\ FetchedIds \subseteq Remaining
    /\ \A k \in DOMAIN queue.items :
          Len(queue.items[k]) = 3 => queue.items[k][2] \in Remaining
    /\ AllAttempted =>
          \A i \in Ids : fetchCount[i] = IF i \in Remaining THEN Occurrences(input, i) ELSE 0

C1_Witness ==
    /\ AllAttempted
    /\ LedgerAtStart \cap Range(input) # {}
    /\ FetchedIds # {}

\* C2 Retry ceiling: once the workers have stopped and the sinks are drained,
\* an identifier seeded once whose every attempt fails has been fetched
\* exactly 3 times, is on the failure ledger and is not on the success ledger.
C2_RetryCeiling ==
    (WorkersStopped /\ SinksDrained) =>
        \A x \in Remaining :
            (AlwaysFails(x) /\ Occurrences(input, x) = 1) =>
                /\ fetchCount[x] = RetryLimit + 1
                /\ x \in FailedIds
                /\ x \notin Texts(AppendedLines)

\* The orchestrator waits in queue.join() for a count that no thread will
\* ever bring to zero.
Hung ==
    /\ pc = "JoinQueue"
    /\ queue.unfinished > 0
    /\ WorkersStopped

\* C3 Run termination: no fetch outcome leaves the orchestrator blocked
\* forever in a join.
C3_NeverHung == ~Hung

\* C4 No double counting, no lost item: when a Hermitage run is complete,
\* every seeded identifier is on exactly one of the success ledger (lines of
\* this run) and the failure ledger, and the two counts add up to the number
\* of distinct identifiers attempted.
C4_NoDoubleCounting ==
    (Hermitage /\ pc = "Done") =>
        LET S == Texts(AppendedLines)
            F == FailedIds
        IN /\ Remaining \subseteq S \cup F
           /\ S \cap F = {}
           /\ Cardinality(S) + Cardinality(F) = Cardinality(Remaining)

C4_Witness ==
    /\ Hermitage
    /\ pc = "Done"
    /\ Cardinality(Remaining) = 2
    /\ LedgerAtStart = {}

\* C5 Success routing: an attempt that retrieves and parses the page and whose
\* image request is ok (fate DlOk) reaches the routing test with a record,
\* never with None.
C5_SuccessRouting ==
    \A w \in DOMAIN threads :
        (threads[w].pc = "route" /\ fate[threads[w].obj[2]] = "DlOk") =>
            threads[w].annotation = Information(threads[w].obj[2])

\* identifiers the previous Hermitage launch appended to downloaded.txt
Checkpointed == Texts(SubSeq(fileAtStart, prevStart + 1, Len(fileAtStart)))

\* C6 Crash-resume: a Hermitage launch that follows a stop fetches none of
\* the identifiers the stopped launch had checkpointed, and once its workers
\* have stopped it has fetched as many identifiers as the input has distinct
\* ones minus those on the ledger at the stop.
C6_CrashResume ==
    (Hermitage /\ run > 1) =>
        /\ FetchedIds \cap Checkpointed = {}
        /\ WorkersStopped =>
              Cardinality(FetchedIds)
                  = Cardinality(Range(input)) - Cardinality(Range(input) \cap LedgerAtStart)

C6_Witness ==
    /\ Hermitage
    /\ run > 1
    /\ WorkersStopped
    /\ Cardinality(Range(input)) = 2
    /\ Cardinality(Checkpointed) = 1
    /\ Cardinality(FetchedIds) = 1

\* C7 Concurrent safety: whatever the worker cap and the interleaving, a
\* completed Hermitage run ends with the accumulator, the csv index and the
\* lines added to the success ledger naming exactly the identifiers that were
\* to be fetched, and with nothing on the failure ledger.
C7_ScheduleIndependent ==
    (Hermitage /\ pc = "Done") =>
        /\ Range(ObjectIds(annotations)) = Remaining
        /\ Len(annotations) = Len(NotIn(input, SetToSeq(LedgerAtStart)))
        /\ Range(csvFile.index) = Remaining
        /\ Texts(progressFile) = LedgerAtStart \cup Remaining
        /\ failedFile = <<>>

C7_Witness ==
    /\ Hermitage
    /\ pc = "Done"
    /\ maxConcurrency = MaxThreads
    /\ Len(threads) = 2
    /\ Len(annotations) = 2

\* C8 Duplicate-free complete aggregate: the accumulator never holds two
\* records of one identifier, and holds every identifier this run wrote to
\* the success ledger.
C8_DuplicateFree ==
    /\ \A j, k \in DOMAIN annotations :
          j # k => annotations[j].object_id # annotations[k].object_id
    /\ (Hermitage /\ pc = "Done") => Texts(AppendedLines) \subseteq Range(ObjectIds(annotations))

\* C9 Output coverage: the aggregate step never fails, and a finished run has
\* written a csv with a row for every identifier attempted in the run.
C9_OutputCoverage ==
    /\ pc # "Error"
    /\ pc = "Done" => /\ csvFile.written
                      /\ Remaining \subseteq Range(csvFile.index)

\* The step in which worker w takes an item whose image file exists.
TakesWithImage(w) ==
    /\ w \in DOMAIN threads
    /\ run' = run
    /\ threads[w].pc = "get"
    /\ threads'[w].pc # "get"
    /\ Len(Head(queue.items)) = 3
    /\ Head(queue.items)[2] \in imageFiles

\* The Wallace step that visits an object whose image file exists.
VisitsWithImage ==
    /\ scraper = "wallace"
    /\ pc = "Loop"
    /\ pc' = "Record"
    /\ Head(todo) \in imageFiles

\* C10 as stated: whenever the image file exists when the identifier is
\* processed, no download is made, the JSON record is written and the
\* attempt yields a record.
C10_AssetSkipAlways ==
    [][/\ \A w \in DOMAIN threads :
             TakesWithImage(w) =>
                 LET id == Head(queue.items)[2] IN
                 /\ downloadCount' = downloadCount
                 /\ threads'[w].pc = "route"
                 /\ id \in jsonFiles'
                 /\ threads'[w].annotation = Information(id)
       /\ VisitsWithImage =>
             /\ downloadCount' = downloadCount
             /\ Head(todo) \in jsonFiles'
             /\ annotation' = Information(Head(todo))]_vars

\* C10 amended: whenever the image file exists when the identifier is
\* processed, no download is made; and if the page was retrieved and parsed
\* (the page does not fail) the JSON record is written and the attempt
\* yields a record.
C10_AssetSkip ==
    [][/\ \A w \in DOMAIN threads :
             TakesWithImage(w) =>
                 LET id == Head(queue.items)[2] IN
                 /\ downloadCount' = downloadCount
                 /\ threads'[w].pc = "route"
                 /\ ~PageFails(id) =>
                       /\ id \in jsonFiles'
                       /\ threads'[w].annotation = Information(id)
       /\ VisitsWithImage =>
             /\ downloadCount' = downloadCount
             /\ ~PageFails(Head(todo)) =>
                   /\ Head(todo) \in jsonFiles'
                   /\ annotation' = Information(Head(todo))]_vars

C10_Witness ==
    \E i \in hadImage :
        /\ downloadCount[i] = 0
        /\ i \in jsonFiles
        /\ \/ \E w \in DOMAIN threads : threads[w].pc = "route"
                                        /\ threads[w].annotation = Information(i)
           \/ pc = "Record" /\ annotation = Information(i)

\* ------------------------------------------------------------------- C11
\* The launch has seeded and every identifier of a non-empty input was on
\* downloaded.txt when it started.
EmptyAfterFiltering ==
    /\ Hermitage
    /\ pc # "Seeding"
    /\ input # <<>>
    /\ Range(input) \subseteq LedgerAtStart

\* the sentinel is what the drain thread of sink s takes next, or has taken
SentinelDelivered(s) ==
    \/ writers[s].pc = "exit"
    \/ writers[s].pc = "get" /\ SinkOf(s).items = <<None>>

\* C11 Empty after filtering: in a Hermitage launch whose non-empty input is
\* wholly on the success ledger, no worker thread exists, the fetcher and the
\* downloader are never called, nothing is ever put on the work queue or on a
\* sink but the two sentinels (so each of the three joins passes as soon as it
\* is reached), each drain thread takes the sentinel and exits without
\* writing, the launch ends in Done with an aggregate of no rows, and no step
\* of the launch changes downloaded.txt, failed.txt or the output files.
C11_EmptyAfterFiltering ==
    [][EmptyAfterFiltering' =>
        /\ threads' = <<>>
        /\ fetchCount' = ZeroCount /\ downloadCount' = ZeroCount
        /\ queue' = EmptyQueue
        /\ pc' \in {"JoinQueue", "JoinOutput", "JoinFailed", "Sentinels", "Close", "Aggregate",
                    "Done"}
        /\ \A s \in {"progress", "failed"} :
              /\ writers'[s].pc \in {"get", "exit"}
              /\ pc' \in {"Close", "Aggregate", "Done"} => SentinelDelivered(s)'
              /\ pc' \notin {"Close", "Aggregate", "Done"} => SinkOf(s)' = EmptyQueue
        /\ annotations' = <<>>
        /\ pc' = "Done" => csvFile' = DataFrame(<<>>, <<>>)
        /\ EmptyAfterFiltering =>
              UNCHANGED <<progressFile, failedFile, jsonFiles, imageFiles>>
        /\ progressFile' = fileAtStart'
    ]_vars

C11_Witness ==
    /\ EmptyAfterFiltering
    /\ pc = "Done"
    /\ csvFile.written /\ csvFile.rows = <<>>
    /\ \A s \in {"progress", "failed"} : writers[s].pc = "exit"

\* ------------------------------------------------------------------- C12
\* an item for x other than the seeded (url, id, 0) is on the work queue
RetryPending(x) ==
    \E k \in DOMAIN queue.items :
        /\ queue.items[k][1] = UrlOf[x]
        /\ queue.items[k] # <<UrlOf[x], x, 0>>

\* C12 Permanent failures are never retried: an identifier whose page
\* response is not OK (the resource is gone) is never put back on the work
\* queue, and once the workers have stopped and the sinks are drained it is on
\* the failure ledger.
C12_PermanentNotRetried ==
    Hermitage =>
        \A x \in Remaining :
            fate[x] = "PageGone" =>
                /\ ~RetryPending(x)
                /\ (WorkersStopped /\ SinksDrained) => x \in FailedIds

\* ------------------------------------------------------------------- C13
\* The drain thread of sink s died in write() while the ledger files were
\* open, before task_done(): the element it took is never acknowledged.
DrainDied(s) ==
    /\ Hermitage
    /\ ~FilesClosed
    /\ writers[s].pc = "crashed"
    /\ SinkOf(s).unfinished > 0

\* The orchestrator waits in the join of a sink whose drain thread has died;
\* no step can lower the sink's unfinished count again.
SinkHung ==
    \/ pc = "JoinOutput" /\ DrainDied("progress")
    \/ pc = "JoinFailed" /\ DrainDied("failed")

\* C13 Storage failure aborts the run: when a write to a ledger fails, the
\* launch has ended in an error the caller sees by the time the orchestrator
\* waits on that sink; it never waits in a sink join for the acknowledgement
\* of a drain thread that has died.
C13_StorageFailureAborts ==
    /\ ~SinkHung
    /\ \A s \in {"progress", "failed"} :
          (DrainDied(s) /\ pc \in {"JoinOutput", "JoinFailed"}) => pc = "Error"

\* ------------------------------------------------------------------- C14
\* C14 Resolved-by-failure is honoured on resume: an identifier that the
\* previous Hermitage launch fetched without ever obtaining its record is in
\* the resolved set the next launch loads, is not seeded and is not fetched
\* again.
C14_FailureResolvedOnResume ==
    (Hermitage /\ pc # "Seeding") =>
        \A x \in prevFailed :
            /\ x \in Range(download_progress)
            /\ ~RetryPending(x) /\ <<UrlOf[x], x, 0>> \notin Range(queue.items)
            /\ fetchCount[x] = 0

\* ------------------------------------------------------------------- C15
\* C15 Separate failure ledger keyed by identifier: once the workers have
\* stopped and the sinks are drained, every seeded identifier whose attempts
\* all fail has a line on failed.txt that is the identifier itself, every
\* line of failed.txt is an identifier of the input, and the launch has
\* appended no line for it to downloaded.txt.
C15_FailureLedgerById ==
    (WorkersStopped /\ SinksDrained) =>
        /\ Texts(failedFile) \subseteq Range(input)
        /\ \A x \in Remaining :
              AlwaysFails(x) =>
                  /\ x \in Texts(failedFile)
                  /\ x \notin Texts(AppendedLines)

\* ------------------------------------------------------------------- C16
\* C16 Fetch is side-effect-free on failure: a call of __extract_page that
\* has returned None has written neither <id>.json nor the image file.
C16_NoEffectOnFailure ==
    \A w \in DOMAIN threads :
        (threads[w].pc \in {"route", "ack"} /\ threads[w].annotation = None) =>
            threads[w].wrote = {}

\* ------------------------------------------------------------------- C17
\* The seeding of HermitageMuseum.scrape on its own, over input lists long
\* enough to exceed the thread cap: each launch loads the ledger, seeds the
\* work queue and starts the threads; the process is then stopped and
\* launched again.
InitSeed ==
    /\ scraper = "hermitagemuseum"
    /\ input \in SeqsUpTo(MaxSeed)
    /\ fate = [i \in Ids |-> "PageFail"]
    /\ maxConcurrency = MaxThreads
    /\ run = 1
    /\ \E L \in SUBSET Ids : progressFile = Lines(SetToSeq(L))
    /\ ledgerExists = (progressFile # <<>>)
    /\ failedFile = <<>>
    /\ jsonFiles = {}
    /\ imageFiles = {}
    /\ csvFile = NoCsv
    /\ fileAtStart = progressFile
    /\ prevStart = Len(progressFile)
    /\ prevFailed = {}
    /\ pc = "Seeding"
    /\ download_progress = <<>>
    /\ queue = EmptyQueue
    /\ output_queue = EmptyQueue
    /\ failed_queue = EmptyQueue
    /\ threads = <<>>
    /\ writers = NoWriters
    /\ annotations = <<>>
    /\ todo = <<>>
    /\ annotation = None
    /\ fetchCount = ZeroCount
    /\ downloadCount = ZeroCount
    /\ hadImage = {}
    /\ produced = <<>>
    /\ deep_data = <<>>
    /\ d_pos = 1
    /\ idx = 0
    /\ vpc = "Idle"
    /\ imageOk = {}
    /\ targetFiles = {}
    /\ targetsAtStart = {}
    /\ vandaCsv = <<>>

NextSeed ==
    \/ H_Seed
    \/ Restart

SeedSpec == InitSeed /\ [][NextSeed]_vars

\* positions of the input whose identifier is not on the ledger
SeededPositions == {k \in DOMAIN input : input[k] \notin LedgerAtStart}

\* C17 Worker count: after seeding, the work queue holds one item per input
\* position whose identifier is not on the ledger, and the number of worker
\* threads started is min(q, 10) for that number q of items: never more than
\* 10 threads, never more threads than seeded items.
C17_WorkerCount ==
    /\ Len(threads) <= 10
    /\ (Hermitage /\ pc = "JoinQueue") =>
          LET q == Len(queue.items) IN
              /\ q = Cardinality(SeededPositions)
              /\ Len(threads) = IF q < 10 THEN q ELSE 10
              /\ Len(threads) <= q

C17_Witness ==
    /\ Hermitage /\ pc = "JoinQueue"
    /\ Len(queue.items) = 12
    /\ Len(threads) = 10

\* ------------------------------------------------------------------- C18
\* the list the launch loaded from downloaded.txt (Wallace appends the
\* identifiers of its records to the same list)
LoadedLedger ==
    IF Hermitage THEN download_progress
    ELSE SubSeq(download_progress, 1, Len(download_progress) - Len(annotations))

\* C18 Ledger load: the list a launch loads holds each distinct stripped line
\* of downloaded.txt exactly once, however often the line occurs in the file,
\* and is empty when the file is missing or empty; the load itself raises no
\* error (a launch in error has produced a record first).
C18_LedgerLoad ==
    pc # "Seeding" =>
        /\ Range(LoadedLedger) = {Strip(l) : l \in Range(fileAtStart)}
        /\ Cardinality(Range(LoadedLedger)) = Len(LoadedLedger)
        /\ fileAtStart = <<>> => LoadedLedger = <<>>
        /\ pc = "Error" => annotations # <<>>

\* The previous launch found no ledger, loaded the empty list and went on to
\* append the same identifier twice; this launch has loaded it once.
C18_Witness ==
    /\ pc # "Seeding"
    /\ run = 2 /\ prevStart = 0
    /\ \E j, k \in DOMAIN fileAtStart : j # k /\ Strip(fileAtStart[j]) = Strip(fileAtStart[k])
    /\ Len(LoadedLedger) = 1

\* ------------------------------------------------------------------- C19
\* worker w waits in queue.get() although the queue is empty and no other
\* worker can put anything on it any more
BlockedInGet(w) ==
    /\ threads[w].pc = "get"
    /\ queue.items = <<>>
    /\ \A v \in DOMAIN threads : threads[v].pc \in {"get", "exit", "crashed"}

\* C19 Worker exit: no worker ever waits in queue.get() on a work queue that
\* is empty and stays empty; when no worker can take another step, each has
\* left its loop.
C19_WorkerExit ==
    Hermitage =>
        /\ \A w \in DOMAIN threads : ~BlockedInGet(w)
        /\ WorkersStopped => \A w \in DOMAIN threads : threads[w].pc = "exit"

\* ------------------------------------------------------------------- C20
\* a worker has died unpacking the item it popped
DiedOnPop == \E w \in DOMAIN threads : threads[w].pc = "crashed"

\* C20 Re-enqueue keeps the item well-formed and outstanding: every item on
\* the work queue is a (url, identifier, attempt) triple whose identifier is
\* the one of its url, a re-enqueued item carries an attempt number of at
\* least 1, the queue's outstanding count covers every queued item and every
\* item a worker still holds, and no worker dies unpacking a popped item.
C20_RetryWellFormed ==
    Hermitage =>
        /\ \A k \in DOMAIN queue.items :
              LET item == queue.items[k] IN
                  /\ Len(item) = 3
                  /\ item[2] = IdOfUrl(item[1])
                  /\ item[3] \in 0..RetryLimit
        /\ queue.unfinished >= Len(queue.items)
              + Cardinality({w \in DOMAIN threads : threads[w].pc \in {"download", "route", "ack"}})
        /\ ~DiedOnPop

\* ------------------------------------------------------------------- C21
\* the orchestrator has passed queue.join(), output_queue.join() and
\* failed_queue.join()
PassedJoins == Hermitage /\ pc \in {"Sentinels", "Close", "Aggregate", "Done"}

\* the elements of sink s that are not the sentinel
RealItems(s) == {k \in DOMAIN SinkOf(s).items : SinkOf(s).items[k] # None}

\* C21 Barrier ordering: a worker about to acknowledge its work item has
\* already put its record on the success sink, a drain thread about to
\* acknowledge a sink element has already written its line, and once the
\* orchestrator has passed the three joins the lines this launch appended to
\* downloaded.txt and the accumulator are, in order, the records the workers
\* produced, while nothing is left on the failure sink or in the hands of its
\* drain thread.
C21_BarrierOrdering ==
    /\ \A w \in DOMAIN threads :
          (threads[w].pc = "ack" /\ threads[w].annotation # None) =>
              threads[w].obj[2] \in Range(produced)
    /\ (Hermitage /\ writers["progress"].pc = "ack") =>
          /\ AppendedLines # <<>>
          /\ Strip(AppendedLines[Len(AppendedLines)]) = ProgressLine(writers["progress"].element)
    /\ PassedJoins =>
          /\ ObjectIds(annotations) = produced
          /\ [k \in DOMAIN AppendedLines |-> Strip(AppendedLines[k])] = produced
          /\ RealItems("progress") = {} /\ RealItems("failed") = {}
          /\ \A s \in {"progress", "failed"} : writers[s].pc \in {"get", "exit"}

C21_Witness ==
    /\ PassedJoins
    /\ Len(produced) = 2

\* ------------------------------------------------------------------- C22
\* the sentinels have been put on the sinks
SentinelsSent == pc \in {"Close", "Aggregate", "Done"}

\* C22 Sentinel protocol: a drain thread leaves its loop only after the
\* orchestrator has sent the sentinels and only with the sentinel as the
\* element it took, never on an empty sink; the orchestrator reaches the
\* sending of the sentinels only with the work queue and both sinks fully
\* acknowledged; a sink holds at most one sentinel and never a real element
\* together with it, and nothing real is left on a sink whose drain thread has
\* left its loop.
C22_SentinelProtocol ==
    Hermitage =>
        /\ pc = "Sentinels" =>
              /\ queue.unfinished = 0
              /\ output_queue.unfinished = 0
              /\ failed_queue.unfinished = 0
        /\ \A s \in {"progress", "failed"} :
              /\ writers[s].pc = "exit" =>
                    /\ SentinelsSent
                    /\ writers[s].element = None
                    /\ SinkOf(s).items = <<>>
              /\ (\E k \in DOMAIN SinkOf(s).items : SinkOf(s).items[k] = None) =>
                    /\ SentinelsSent
                    /\ SinkOf(s).items = <<None>>
                    /\ writers[s].pc = "get"

C22_Witness ==
    /\ Hermitage
    /\ produced # <<>>
    /\ [k \in DOMAIN AppendedLines |-> Strip(AppendedLines[k])] = produced
    /\ \A s \in {"progress", "failed"} : writers[s].pc = "exit"

\* ------------------------------------------------------------------- C23
\* C23 Finalizing joins the sink threads: whenever the ledger files are closed
\* or the aggregate is being assembled, both drain threads have terminated.
C23_DrainThreadsJoined ==
    (Hermitage /\ FilesClosed) =>
        \A s \in {"progress", "failed"} : writers[s].pc = "exit"

\* ------------------------------------------------------------------- C24
\* C24 Append-only ledger: every step that changes downloaded.txt keeps all
\* its lines and adds exactly one newline-terminated line at the end, so the
\* set of identifiers readable from the file never shrinks, whichever step a
\* process stop follows.
C24_AppendOnly ==
    [][progressFile' # progressFile =>
          /\ Len(progressFile') = Len(progressFile) + 1
          /\ SubSeq(progressFile', 1, Len(progressFile)) = progressFile
          /\ progressFile'[Len(progressFile')].nl
          /\ Texts(progressFile) \subseteq Texts(progressFile')
    ]_vars

\* ------------------------------------------------------------------- C25
\* C25 Checkpoint implies outputs: every identifier on a line that this
\* Hermitage launch appended to downloaded.txt, and every identifier whose
\* record is on the success sink or in the hands of its drain thread, has its
\* JSON record file and its image file in the output directory.
C25_CheckpointImpliesOutputs ==
    Hermitage =>
        /\ \A x \in Texts(AppendedLines) : x \in jsonFiles /\ x \in imageFiles
        /\ \A x \in Range(produced) : x \in jsonFiles /\ x \in imageFiles

C25_Witness ==
    /\ Hermitage
    /\ \E x \in Texts(AppendedLines) : x \notin LedgerAtStart

\* ------------------------------------------------------------------- C26
\* C26 No write after close: no step taken while the ledger files are closed
\* changes downloaded.txt, failed.txt or the accumulator; in such a state no
\* drain thread holds an element to write or has died in a write, and no real
\* element is on a sink.
C26_NoWriteAfterClose ==
    [][(Hermitage /\ FilesClosed /\ pc' # "Seeding") =>
          /\ UNCHANGED <<progressFile, failedFile, annotations>>
          /\ \A s \in {"progress", "failed"} :
                /\ writers[s].pc \in {"get", "exit"}
                /\ writers'[s].pc \in {"get", "exit"}
                /\ RealItems(s) = {}
    ]_vars

\* the files are closed while the progress drain thread, having written
\* records, has not yet taken its sentinel
C26_Witness ==
    /\ Hermitage
    /\ pc = "Done"
    /\ annotations # <<>>
    /\ writers["progress"].pc = "get"
    /\ output_queue.items = <<None>>

\* ------------------------------------------------------------------- C27
\* identifiers of this launch whose fetch yields a record
Succeeds == {x \in Remaining : ~PageFails(x)}

\* the parts of C27 that do not count fetches: an identifier without a
\* record is never added to the list or the file, the loop is only ever left
\* early while a record is being checkpointed, when the loop is over every
\* identifier to fetch has been fetched, and the file then holds the loaded
\* identifiers and those that succeeded
WallaceLoop ==
    /\ \A x \in Remaining :
          PageFails(x) => x \notin Range(download_progress) /\ x \notin Texts(progressFile)
    /\ (pc = "Error" /\ todo # <<>>) => annotation # None
    /\ LoopFinished =>
          /\ \A x \in Remaining : fetchCount[x] > 0
          /\ Texts(progressFile) = LedgerAtStart \cup Succeeds
          /\ Range(download_progress) = LedgerAtStart \cup Succeeds

TargetFile(item_id, i) == <<item_id, i>>

DeepVandAInformation(item_id, n) ==
    [item_id |-> item_id, tag |-> <<"tag", item_id>>, image_urls |-> n, image_names |-> <<>>]

\* the records of the distinct item ids in `items`, by number of image urls
DeepData(items) ==
    {dd \in [DOMAIN items -> {DeepVandAInformation(x, n) : x \in Ids, n \in 0..MaxImages}] :
        \A k \in DOMAIN items : dd[k].item_id = items[k]}

\* the target files of all image urls of the records
TargetsOf(dd) ==
    UNION {{TargetFile(dd[k].item_id, i) : i \in 0..(dd[k].image_urls - 1)} : k \in DOMAIN dd}

InitVandA ==
    /\ scraper = "vanda"
    /\ input \in {s \in SeqsUpTo(MaxInput) : \A j, k \in DOMAIN s : j # k => s[j] # s[k]}
    /\ fate = [i \in Ids |-> "PageFail"]
    /\ maxConcurrency = MaxThreads
    /\ run = 1
    /\ progressFile = <<>>
    /\ ledgerExists = FALSE
    /\ failedFile = <<>>
    /\ jsonFiles = Range(input)
    /\ imageFiles = {}
    /\ csvFile = NoCsv
    /\ fileAtStart = <<>>
    /\ prevStart = 0
    /\ prevFailed = {}
    /\ pc = "Seeding"
    /\ download_progress = <<>>
    /\ queue = EmptyQueue
    /\ output_queue = EmptyQueue
    /\ failed_queue = EmptyQueue
    /\ threads = <<>>
    /\ writers = NoWriters
    /\ annotations = <<>>
    /\ todo = <<>>
    /\ annotation = None
    /\ fetchCount = ZeroCount
    /\ downloadCount = ZeroCount
    /\ hadImage = {}
    /\ produced = <<>>
    /\ deep_data \in DeepData(input)
    /\ d_pos = 1
    /\ idx = 0
    /\ vpc = "Download"
    /\ imageOk \in SUBSET TargetsOf(deep_data)
    /\ targetFiles \in SUBSET TargetsOf(deep_data)
    /\ targetsAtStart = targetFiles
    /\ vandaCsv = <<>>

\* lines 151-164, one image url of the record d: skip an existing target;
\* otherwise _download_image writes the file when the request is ok, and the
\* target is appended to d.image_names when its result is truthy.
V_Download ==
    /\ vpc = "Download"
    /\ d_pos <= Len(deep_data)
    /\ idx < deep_data[d_pos].image_urls
    /\ LET target_file == TargetFile(deep_data[d_pos].item_id, idx) IN
        IF target_file \in targetFiles
        THEN UNCHANGED <<targetFiles, deep_data>>
        ELSE LET r_ok == target_file \in imageOk
                 result == DownloadImageResult(r_ok)
             IN /\ targetFiles' = IF r_ok THEN targetFiles \cup {target_file} ELSE targetFiles
                /\ deep_data' = IF Truthy(result)
                                THEN [deep_data EXCEPT ![d_pos].image_names = Append(@, target_file)]
                                ELSE deep_data
    /\ idx' = idx + 1
    /\ UNCHANGED <<d_pos, vpc, imageOk, targetsAtStart, vandaCsv, produced, config, run, disk, pc,
                   download_progress, queue, sinks, threads, writers, annotations, wallace,
                   history>>

\* the inner loop of record d is exhausted: `for d in deep_data` goes on
V_NextRecord ==
    /\ vpc = "Download"
    /\ d_pos <= Len(deep_data)
    /\ idx = deep_data[d_pos].image_urls
    /\ d_pos' = d_pos + 1
    /\ idx' = 0
    /\ UNCHANGED <<deep_data, vpc, imageOk, targetFiles, targetsAtStart, vandaCsv, produced, config,
                   run, disk, pc, download_progress, queue, sinks, threads, writers,
                   annotations, wallace, history>>

\* lines 166-174: one row (item_id, tag, image_path) per entry of image_names
RECURSIVE Rows(_)
Rows(dd) ==
    IF dd = <<>> THEN <<>>
    ELSE [k \in DOMAIN Head(dd).image_names |->
             [item_id |-> Head(dd).item_id, tag |-> Head(dd).tag,
              image_path |-> Head(dd).image_names[k]]] \o Rows(Tail(dd))

\* lines 166-184: collect the rows and write vanda_scraped.csv
V_WriteCsv ==
    /\ vpc = "Download"
    /\ d_pos > Len(deep_data)
    /\ vandaCsv' = Rows(deep_data)
    /\ vpc' = "Done"
    /\ UNCHANGED <<deep_data, d_pos, idx, imageOk, targetFiles, targetsAtStart, produced, config,
                   run, disk, pc, download_progress, queue, sinks, threads, writers,
                   annotations, wallace, history>>

NextVandA ==
    \/ V_Download
    \/ V_NextRecord
    \/ V_WriteCsv

VandASpec == InitVandA /\ [][NextVandA]_vars

\* ------------------------------------------------------------------- C28
\* the image urls of record k whose target was missing at the start and whose
\* request is answered ok
Downloaded(k) ==
    {TargetFile(deep_data[k].item_id, i) : i \in 0..(deep_data[k].image_urls - 1)}
        \cap (imageOk \ targetsAtStart)

\* C28 V&A image accounting: when vanda_scraped.csv is written, every record
\* has in image_names exactly the targets that were missing and whose download
\* succeeded, and the csv has exactly one row (item_id, tag, image_path) for
\* each of them and no row for any other image.
C28_ImageAccounting ==
    vpc = "Done" =>
        /\ \A k \in DOMAIN deep_data : Range(deep_data[k].image_names) = Downloaded(k)
        /\ Len(vandaCsv) = Cardinality(UNION {Downloaded(k) : k \in DOMAIN deep_data})
        /\ \A k \in DOMAIN deep_data : \A t \in Downloaded(k) :
              \E r \in DOMAIN vandaCsv :
                  vandaCsv[r] = [item_id |-> deep_data[k].item_id, tag |-> deep_data[k].tag,
                                 image_path |-> t]

====
